---- MODULE Spec2Model ----
(***************************************************************************)
(* Model of scripts/generate_enum_source.py: one run of the script, from   *)
(* argument parsing to process exit.  The file system, the search path and *)
(* the external generator (glib-mkenums) are the environment.              *)
(*                                                                         *)
(* Paths are sequences of components, an absolute path starting with "/".  *)
(* Texts are sequences of characters.  An optional value (None in Python)  *)
(* is the empty sequence, a present value x is <<x>>.                      *)
(***************************************************************************)
EXTENDS Integers, Sequences, FiniteSets, TLC

\* ------------------------------------------------------------------ bounds
MaxSources == 2
MaxReplace == 2
MaxOutDirs == 2

\* ------------------------------------------------------------ environment
None == <<>>
Some(x) == <<x>>

Range(s) == {s[i] : i \in 1..Len(s)}
SeqsUpTo(S, lo, hi) == UNION {[1..n -> S] : n \in lo..hi}

\* directories that exist in the file system (os.path.isdir is true)
Directories == {<<"/", "src">>, <<"/", "out1">>, <<"/", "out2">>, <<"/", "tool">>}
\* a regular file and a path that does not exist
NonDirectories == {<<"/", "file">>}

\* get_script_path(): the directory of the running script
get_script_path == <<"/", "tool">>

\* variant: os.path.exists in place of os.path.isdir
isdir_exists(optPath) ==
  IF optPath = None THEN "TypeError"
  ELSE IF optPath[1] \in Directories \cup NonDirectories THEN "True" ELSE "False"

\* os.path.isdir on a path or on None: stat(None) raises TypeError, which
\* isdir does not catch; any other path gives True or False
isdir(optPath) ==
  IF optPath = None THEN "TypeError"
  ELSE IF optPath[1] \in Directories THEN "True" ELSE "False"

\* os.path.join(a, b): an absolute b discards a
join(a, b) == IF b # <<>> /\ b[1] = "/" THEN b ELSE a \o b

\* ------------------------------------------------------- regular expressions
\* the (pattern, replacement) pairs a run may be given: a literal pattern, a
\* wildcard pattern and an unbalanced parenthesis, which re.compile rejects
ReplacePairs ==
  {<< <<"a">>, <<"b">> >>, << <<".", "b">>, <<"c", "a">> >>, << <<"(">>, <<"b">> >>}

\* re.compile succeeds (no unterminated group)
IsValidRegex(p) == "(" \notin Range(p)

\* the pattern matches the text at its start
MatchesAt(p, s) ==
  /\ Len(p) <= Len(s)
  /\ \A i \in 1..Len(p) : p[i] = "." \/ p[i] = s[i]

\* re.sub(p, r, s): every non-overlapping match, leftmost first, replaced
RECURSIVE sub(_, _, _)
sub(p, r, s) ==
  IF s = <<>> THEN <<>>
  ELSE IF MatchesAt(p, s)
       THEN r \o sub(p, r, SubSeq(s, Len(p) + 1, Len(s)))
       ELSE <<s[1]>> \o sub(p, r, Tail(s))

\* --------------------------------------------------------------- generator
\* what glib-mkenums may print on its standard output (bytes); "xFF" is a
\* byte that is not valid UTF-8
GenOutputs == {<<"a", "b">>, <<"a", "a", "b">>, <<"c", "xFF">>}

\* bytes.decode('utf-8')
CanDecode(bytes) == "xFF" \notin Range(bytes)
decode(bytes) == [i \in 1..Len(bytes) |-> bytes[i]]

\* which('glib-mkenums')
ToolPaths == {None, Some(<<"/", "usr", "bin", "glib-mkenums">>)}

\* sys.exit(n) and the exit status the parent sees
ExitStatus(n) == n % 256

\* -------------------------------------------------------------------- state
VARIABLES
  args,          \* the parsed command line (argparse Namespace)
  toolPath,      \* result of which('glib-mkenums') in this environment
  pc,            \* position of the script
  templates,     \* (fhead, fprod, ftail, vhead, vprod, vtail)
  sources,       \* resolved source paths
  bash_command,  \* argv handed to subprocess.Popen
  popenCalls,    \* number of subprocess.Popen calls
  spawned,       \* number of generator processes started
  returncode,    \* exit status of the generator, None while unknown
  output,        \* the generated text being post-processed
  generated,     \* the text as decoded from the generator
  replaceIdx,    \* index of the next --replace pair
  writeIdx,      \* index of the next --out-dir entry to write
  files,         \* file system: path -> content
  written,       \* paths opened for writing by this run, in order
  stdout,        \* messages printed on standard output
  stderr,        \* messages printed on standard error
  failure,       \* the code site that ended the run, "none" otherwise
  exitCode       \* exit status, meaningful when pc = "exited"

vars == <<args, toolPath, pc, templates, sources, bash_command, popenCalls,
          spawned, returncode, output, generated, replaceIdx, writeIdx,
          files, written, stdout, stderr, failure, exitCode>>

\* ------------------------------------------------------------- command line
\* --sources entries: a relative and an absolute one
SourceNames == {<<"a.h">>, <<"/", "inc", "b.h">>}
\* output_file is a relative path (help text of the positional argument)
OutputFiles == {<<"enums.c">>, <<"gen", "enums.c">>}
OutDirChoices == {<<"/", "out1">>, <<"/", "out2">>} \cup NonDirectories
SourceDirChoices == {<<"/", "src">>} \cup NonDirectories

ArgSpace ==
  [output_file : OutputFiles,
   sources     : SeqsUpTo(SourceNames, 0, MaxSources),
   replace     : {None} \cup {Some(l) : l \in SeqsUpTo(ReplacePairs, 1, MaxReplace)},
   source_dir  : {None} \cup {Some(d) : d \in SourceDirChoices},
   out_dir     : {None} \cup {Some(l) : l \in SeqsUpTo(OutDirChoices, 1, MaxOutDirs)}]

\* content on disk before the run
OldText == <<"o", "l", "d">>
PriorFiles ==
  (<<"/", "out1", "enums.c">> :> OldText) @@ (<<"/", "out2", "other.c">> :> OldText)

Init ==
  /\ args \in ArgSpace
  /\ toolPath \in ToolPaths
  /\ pc = "parse_args"
  /\ templates = None
  /\ sources = <<>>
  /\ bash_command = None
  /\ popenCalls = 0
  /\ spawned = 0
  /\ returncode = None
  /\ output = <<>>
  /\ generated = None
  /\ replaceIdx = 1
  /\ writeIdx = 1
  /\ files = PriorFiles
  /\ written = <<>>
  /\ stdout = <<>>
  /\ stderr = <<>>
  /\ failure = "none"
  /\ exitCode = 0

\* ------------------------------------------------------------ process exit
\* sys.exit(code) with nothing printed
Exit(site, code) ==
  /\ pc' = "exited"
  /\ failure' = site
  /\ exitCode' = ExitStatus(code)

\* an exception nobody catches: traceback on standard error, status 1
Uncaught(site, exc) ==
  /\ Exit(site, 1)
  /\ stderr' = Append(stderr, exc)

\* ------------------------------------------------------------------ actions
\* parser.parse_args(): --sources is required
ParseArgs ==
  /\ pc = "parse_args"
  /\ IF args.sources = <<>>
     THEN /\ Exit("usage", 2)
          /\ stderr' = Append(stderr, "usage")
     ELSE /\ pc' = "get_template_sections"
          /\ UNCHANGED <<stderr, failure, exitCode>>
  /\ UNCHANGED <<args, toolPath, templates, sources, bash_command, popenCalls,
                 spawned, returncode, output, generated, replaceIdx, writeIdx,
                 files, written, stdout>>

\* get_template_sections(args): the six fragments handed to the generator;
\* fhead has one include line per source, in order, then the two macros
get_template_sections(a) ==
  [fhead |-> [i \in 1..Len(a.sources) |-> <<"#include", a.sources[i]>>]
             \o << <<"#define", <<"C_ENUM/C_FLAGS">> >> >>,
   fprod |-> "enumerations from @basename@",
   ftail |-> "G_END_DECLS",
   vhead |-> "@enum_name@_get_type",
   vprod |-> "@VALUENAME@",
   vtail |-> "g_@type@_register_static"]

GetTemplateSections ==
  /\ pc = "get_template_sections"
  /\ templates' = Some(get_template_sections(args))
  /\ pc' = "create_enum_source"
  /\ UNCHANGED <<args, toolPath, sources, bash_command, popenCalls, spawned,
                 returncode, output, generated, replaceIdx, writeIdx, files,
                 written, stdout, stderr, failure, exitCode>>

\* the source paths handed to the generator
ResolveSources(a) ==
  [i \in 1..Len(a.sources) |->
     IF a.source_dir # None
     THEN join(a.source_dir[1], a.sources[i])
     ELSE join(get_script_path, a.sources[i])]

\* create_enum_source, first part: assert(path.isdir(args.source_dir)), then
\* the resolution of the sources
CheckSourceDir ==
  /\ pc = "create_enum_source"
  /\ LET r == isdir(args.source_dir) IN
     CASE r = "TypeError" ->
            /\ Uncaught("source_dir", "TypeError")
            /\ UNCHANGED <<sources, stdout>>
       [] r = "False" ->
            /\ stdout' = Append(stdout, "Argument given to --source-dir is not a directory.")
            /\ Exit("source_dir", -1)
            /\ UNCHANGED <<sources, stderr>>
       [] r = "True" ->
            /\ sources' = ResolveSources(args)
            /\ pc' = "popen"
            /\ UNCHANGED <<stdout, stderr, failure, exitCode>>
  /\ UNCHANGED <<args, toolPath, templates, bash_command, popenCalls, spawned,
                 returncode, output, generated, replaceIdx, writeIdx, files,
                 written>>

\* create_enum_source, second part: the argv is built from which()'s result,
\* None included, and handed to subprocess.Popen
Popen ==
  /\ pc = "popen"
  /\ bash_command' = Some([exe |-> toolPath, templates |-> templates[1],
                           sources |-> sources])
  /\ popenCalls' = popenCalls + 1
  /\ IF toolPath = None
     THEN /\ Uncaught("popen", "TypeError")
          /\ UNCHANGED spawned
     ELSE \E launched \in BOOLEAN :
            IF launched
            THEN /\ spawned' = spawned + 1
                 /\ pc' = "communicate"
                 /\ UNCHANGED <<stderr, failure, exitCode>>
            ELSE /\ Uncaught("popen", "OSError")
                 /\ UNCHANGED spawned
  /\ UNCHANGED <<args, toolPath, templates, sources, returncode, output,
                 generated, replaceIdx, writeIdx, files, written, stdout>>

\* the second value of process.communicate(): standard error of the child is
\* not piped, so it is None whatever the child did
CommunicateError(status) == None

\* create_enum_source, third part: wait for the generator, take its standard
\* output, raise the error value if there is one, decode
Communicate ==
  /\ pc = "communicate"
  /\ \E bytes \in GenOutputs, status \in {0, 1} :
       /\ returncode' = Some(status)
       /\ IF CommunicateError(status) # None
          THEN /\ Uncaught("communicate", "TypeError")
               /\ UNCHANGED <<output, generated>>
          ELSE IF CanDecode(bytes)
          THEN /\ generated' = Some(decode(bytes))
               /\ output' = decode(bytes)
               /\ pc' = "replace"
               /\ UNCHANGED <<stderr, failure, exitCode>>
          ELSE /\ Uncaught("decode", "UnicodeDecodeError")
               /\ UNCHANGED <<output, generated>>
  /\ UNCHANGED <<args, toolPath, templates, sources, bash_command, popenCalls,
                 spawned, replaceIdx, writeIdx, files, written, stdout>>

\* the --replace pairs, none when the option is absent
ReplaceList(a) == IF a.replace = None THEN <<>> ELSE a.replace[1]

\* variant: every pair is applied to the text as generated
ReplaceStep_OnGenerated ==
  /\ pc = "replace"
  /\ replaceIdx <= Len(ReplaceList(args))
  /\ LET regex_tuple == ReplaceList(args)[replaceIdx] IN
       IF IsValidRegex(regex_tuple[1])
       THEN /\ output' = sub(regex_tuple[1], regex_tuple[2], generated[1])
            /\ replaceIdx' = replaceIdx + 1
            /\ UNCHANGED <<pc, failure, exitCode>>
       ELSE /\ Exit("regex", -1)
            /\ UNCHANGED <<output, replaceIdx>>
  /\ UNCHANGED <<args, toolPath, templates, sources, bash_command, popenCalls,
                 spawned, returncode, generated, writeIdx, files, written,
                 stdout, stderr>>

\* variant: a re.error skips the pair and the loop goes on
ReplaceStep_SkipInvalid ==
  /\ pc = "replace"
  /\ replaceIdx <= Len(ReplaceList(args))
  /\ LET regex_tuple == ReplaceList(args)[replaceIdx] IN
       /\ output' = IF IsValidRegex(regex_tuple[1])
                    THEN sub(regex_tuple[1], regex_tuple[2], output)
                    ELSE output
       /\ replaceIdx' = replaceIdx + 1
       /\ UNCHANGED <<pc, failure, exitCode>>
  /\ UNCHANGED <<args, toolPath, templates, sources, bash_command, popenCalls,
                 spawned, returncode, generated, writeIdx, files, written,
                 stdout, stderr>>

\* one turn of the loop over args.replace: re.sub on the current output, a
\* re.error ends the run with sys.exit(-1)
ReplaceStep ==
  /\ pc = "replace"
  /\ replaceIdx <= Len(ReplaceList(args))
  /\ LET regex_tuple == ReplaceList(args)[replaceIdx] IN
       IF IsValidRegex(regex_tuple[1])
       THEN /\ output' = sub(regex_tuple[1], regex_tuple[2], output)
            /\ replaceIdx' = replaceIdx + 1
            /\ UNCHANGED <<pc, failure, exitCode>>
       ELSE /\ Exit("regex", -1)
            /\ UNCHANGED <<output, replaceIdx>>
  /\ UNCHANGED <<args, toolPath, templates, sources, bash_command, popenCalls,
                 spawned, returncode, generated, writeIdx, files, written,
                 stdout, stderr>>

\* variant: only the first entry is asserted
AllOutDirsValid_FirstOnly(dirs) == isdir(Some(dirs[1])) = "True"

\* the loop of assertions over args.out_dir
AllOutDirsValid(dirs) == \A i \in 1..Len(dirs) : isdir(Some(dirs[i])) = "True"

\* variant: the writer is entered while pairs remain to be applied
ValidateOutDirs_Early ==
  /\ pc = "replace"
  /\ IF args.out_dir # None /\ ~AllOutDirsValid(args.out_dir[1])
     THEN /\ stdout' = Append(stdout, "One (or more) of the argument(s) given to --out-dir is not a directory.")
          /\ Exit("out_dir", -1)
     ELSE /\ pc' = "write"
          /\ UNCHANGED <<stdout, failure, exitCode>>
  /\ UNCHANGED <<args, toolPath, templates, sources, bash_command, popenCalls,
                 spawned, returncode, output, generated, replaceIdx, writeIdx,
                 files, written, stderr>>

\* write_enum_source_file, first part, entered once every pair is applied:
\* with --out-dir every entry is asserted to be a directory
ValidateOutDirs ==
  /\ pc = "replace"
  /\ replaceIdx > Len(ReplaceList(args))
  /\ IF args.out_dir # None /\ ~AllOutDirsValid(args.out_dir[1])
     THEN /\ stdout' = Append(stdout, "One (or more) of the argument(s) given to --out-dir is not a directory.")
          /\ Exit("out_dir", -1)
     ELSE /\ pc' = "write"
          /\ UNCHANGED <<stdout, failure, exitCode>>
  /\ UNCHANGED <<args, toolPath, templates, sources, bash_command, popenCalls,
                 spawned, returncode, output, generated, replaceIdx, writeIdx,
                 files, written, stderr>>

\* the files the write loop opens, in order
Targets(a) ==
  IF a.out_dir # None
  THEN [i \in 1..Len(a.out_dir[1]) |-> join(a.out_dir[1][i], a.output_file)]
  ELSE <<join(get_script_path, a.output_file)>>

\* variant: the file is opened for appending
OpenWrite_Append(fs, p, text) ==
  [q \in DOMAIN fs \cup {p} |->
     IF q = p THEN (IF p \in DOMAIN fs THEN fs[p] ELSE <<>>) \o text ELSE fs[q]]

\* open(p, 'w+') then f.write(text): the file holds the text and nothing else
OpenWrite(fs, p, text) == [q \in DOMAIN fs \cup {p} |-> IF q = p THEN text ELSE fs[q]]

\* write_enum_source_file, second part: one open and write; open may fail
WriteFile ==
  /\ pc = "write"
  /\ writeIdx <= Len(Targets(args))
  /\ \E opened \in BOOLEAN :
       IF opened
       THEN /\ files' = OpenWrite(files, Targets(args)[writeIdx], output)
            /\ written' = Append(written, Targets(args)[writeIdx])
            /\ writeIdx' = writeIdx + 1
            /\ UNCHANGED <<pc, stderr, failure, exitCode>>
       ELSE /\ Uncaught("open", "OSError")
            /\ UNCHANGED <<files, written, writeIdx>>
  /\ UNCHANGED <<args, toolPath, templates, sources, bash_command, popenCalls,
                 spawned, returncode, output, generated, replaceIdx, stdout>>

\* the script runs off its end: status 0
ScriptEnd ==
  /\ pc = "write"
  /\ writeIdx > Len(Targets(args))
  /\ Exit("none", 0)
  /\ UNCHANGED <<args, toolPath, templates, sources, bash_command, popenCalls,
                 spawned, returncode, output, generated, replaceIdx, writeIdx,
                 files, written, stdout, stderr>>

Next ==
  \/ ParseArgs
  \/ GetTemplateSections
  \/ CheckSourceDir
  \/ Popen
  \/ Communicate
  \/ ReplaceStep
  \/ ValidateOutDirs
  \/ WriteFile
  \/ ScriptEnd

Spec == Init /\ [][Next]_vars

\* --------------------------------------------------------------- properties
Exited == pc = "exited"
Succeeded == Exited /\ exitCode = 0
NothingWritten == written = <<>> /\ files = PriorFiles

InvalidOutDirGiven ==
  /\ args.out_dir # None
  /\ \E i \in 1..Len(args.out_dir[1]) : args.out_dir[1][i] \notin Directories

\* C1: when --out-dir is given and one of its entries is not an existing
\* directory, no file is written in any directory and the run, once ended,
\* has a non-zero exit status.
C1_InvalidOutDirWritesNothing ==
  InvalidOutDirGiven => NothingWritten /\ (Exited => exitCode # 0)

\* the out-dir validation ended a run whose list has a valid directory before
\* the bad entry
C1_Witness ==
  /\ Exited /\ failure = "out_dir" /\ exitCode = 255
  /\ args.out_dir = Some(<< <<"/", "out1">>, <<"/", "file">> >>)
  /\ NothingWritten

\* C2: once the generator has exited with a failure status, the run writes no
\* file and ends with a non-zero exit status.
C2_GeneratorFailureFailsRun ==
  returncode = Some(1) => NothingWritten /\ (Exited => exitCode # 0)

\* C3: with --source-dir omitted the run does not fail on the source-directory
\* validation and the generator gets every source joined with the script's
\* directory, in order; with a valid --source-dir, joined with that directory.
C3_SourcesResolved ==
  /\ (args.source_dir = None => failure # "source_dir")
  /\ (bash_command # None =>
        bash_command[1].sources =
          [i \in 1..Len(args.sources) |->
             join(IF args.source_dir = None THEN get_script_path
                  ELSE args.source_dir[1], args.sources[i])])
  /\ (Succeeded => bash_command # None)

InvalidSourceDirGiven ==
  args.source_dir # None /\ args.source_dir[1] \notin Directories

\* C4: when --source-dir is given and is not an existing directory, the
\* generator is never spawned, no file is written, and the run, once ended, has
\* a non-zero exit status.
C4_InvalidSourceDirFails ==
  InvalidSourceDirGiven =>
    /\ popenCalls = 0 /\ spawned = 0
    /\ NothingWritten
    /\ (Exited => exitCode # 0)

C4_Witness ==
  /\ Exited /\ failure = "source_dir" /\ exitCode = 255
  /\ InvalidSourceDirGiven
  /\ args.sources # <<>>

\* C5: when the generator executable is not on the search path, no subprocess
\* launch is attempted with the missing value and no file is written.
C5_MissingToolFailsEarly ==
  toolPath = None => popenCalls = 0 /\ NothingWritten

\* the left-to-right fold of the pairs over a text
RECURSIVE FoldReplace(_, _)
FoldReplace(pairs, text) ==
  IF pairs = <<>> THEN text
  ELSE FoldReplace(Tail(pairs), sub(pairs[1][1], pairs[1][2], text))

Reverse(s) == [i \in 1..Len(s) |-> s[Len(s) + 1 - i]]

\* C6: every file written holds the left-to-right fold of the --replace pairs
\* over the generated text, each pair applied to the result of the pairs
\* before it; with no pair, the generated text itself.
C6_WrittenIsFold ==
  \A i \in 1..Len(written) :
    files[written[i]] = FoldReplace(ReplaceList(args), generated[1])

\* a successful run with two pairs whose order matters
C6_Witness ==
  /\ Succeeded /\ written # <<>>
  /\ Len(ReplaceList(args)) = 2
  /\ FoldReplace(ReplaceList(args), generated[1])
       # FoldReplace(Reverse(ReplaceList(args)), generated[1])
  /\ FoldReplace(ReplaceList(args), generated[1])
       # sub(ReplaceList(args)[2][1], ReplaceList(args)[2][2], generated[1])

\* a successful run without --replace
C6_WitnessAbsent ==
  Succeeded /\ written # <<>> /\ args.replace = None

InvalidPatternGiven ==
  \E i \in 1..Len(ReplaceList(args)) : "(" \in Range(ReplaceList(args)[i][1])

\* C7: when a --replace pattern is not a valid regular expression, no file is
\* written and the run, once ended, has a non-zero exit status, however many
\* valid pairs came before it.
C7_InvalidPatternWritesNothing ==
  InvalidPatternGiven => NothingWritten /\ (Exited => exitCode # 0)

\* the bad pattern ended the run after an earlier pair changed the text
C7_Witness ==
  /\ Exited /\ failure = "regex" /\ exitCode = 255
  /\ replaceIdx = 2
  /\ output # generated[1]

\* the files a successful run is to write
ExpectedTargets ==
  IF args.out_dir # None
  THEN {d \o args.output_file : d \in Range(args.out_dir[1])}
  ELSE {get_script_path \o args.output_file}

\* C8: on a successful run the files written are exactly output_file in every
\* --out-dir entry, or in the script's directory without --out-dir; each holds
\* exactly the final text, prior content gone, and no other file changed.
C8_SuccessWritesExactlyTargets ==
  Succeeded =>
    /\ Range(written) = ExpectedTargets
    /\ \A p \in ExpectedTargets : p \in DOMAIN files /\ files[p] = output
    /\ \A p \in DOMAIN files \ ExpectedTargets :
         p \in DOMAIN PriorFiles /\ files[p] = PriorFiles[p]
    /\ output = FoldReplace(ReplaceList(args), generated[1])

\* two directories written, one of them over a file that existed
C8_Witness ==
  /\ Succeeded
  /\ Cardinality(ExpectedTargets) = 2
  /\ \E p \in ExpectedTargets : p \in DOMAIN PriorFiles /\ files[p] # PriorFiles[p]

\* the script's directory written
C8_WitnessDefault ==
  Succeeded /\ args.out_dir = None /\ Len(written) = 1

\* the terminal errors the run detects or is to detect
TerminalError ==
  \/ failure \in {"source_dir", "out_dir", "regex"}
  \/ returncode = Some(1)

\* C9: every terminal error (bad --source-dir, bad --out-dir entry, invalid
\* --replace pattern, generator failure) ends the run with a message on
\* standard error and a non-zero exit status.
C9_ErrorsReportedOnStderr ==
  (Exited /\ TerminalError) => exitCode # 0 /\ stderr # <<>>

\* the stages of the pipeline
StageRank(p) ==
  CASE p = "parse_args" -> 1
    [] p = "get_template_sections" -> 2
    [] p \in {"create_enum_source", "popen", "communicate"} -> 3
    [] p = "replace" -> 4
    [] p = "write" -> 5
    [] p = "exited" -> 6

AllPairsApplied == replaceIdx = Len(ReplaceList(args)) + 1

C10_Inv ==
  /\ popenCalls <= 1 /\ spawned <= 1
  /\ (Succeeded => spawned = 1)
  /\ (written # <<>> =>
        generated # None /\ AllPairsApplied /\ StageRank(pc) >= 5)
  /\ (StageRank(pc) <= 3 => replaceIdx = 1)
  /\ (StageRank(pc) <= 2 => popenCalls = 0)

C10_Step ==
  /\ StageRank(pc') >= StageRank(pc)
  /\ popenCalls' # popenCalls => StageRank(pc) = 3
  /\ replaceIdx' # replaceIdx => StageRank(pc) = 4
  /\ written' # written => StageRank(pc) = 5

\* C10: the stages run in the order parse, templates, generator, post-process,
\* write and none is entered again; the generator is spawned at most once, and
\* exactly once on a successful run; no file is written before the output is
\* captured and every pair applied.
C10_StagesInOrder == [](C10_Inv) /\ [][C10_Step]_vars

\* a successful run that went through every stage, with pairs and two writes
C10_Witness ==
  /\ Succeeded /\ spawned = 1
  /\ Len(ReplaceList(args)) = 2 /\ Len(written) = 2
====
